---- MODULE Spec2Model ----
(***************************************************************************)
(* Model of daily_agent.py: the module-level configuration (imports,       *)
(* output directory, DATE_STR, credential check) and the coroutine         *)
(* run_daily_automation with its try / async with / except structure.      *)
(*                                                                         *)
(* A behaviour is a sequence of operating-system processes that load the   *)
(* module one after the other and share the file system.  Inside one       *)
(* process run_daily_automation may be invoked again after it returned     *)
(* (library use); the script's own __main__ invokes it once.               *)
(*                                                                         *)
(* Texts are sequences of non-empty tokens, so the empty text is << >>.    *)
(* The external collaborators (MCPServerStdio, Runner.run, the file        *)
(* system on the summary write) are nondeterministic: each may return or   *)
(* raise.  The write of the error log inside the handler (line 96) is      *)
(* taken to succeed: OUTPUT_DIR was created at line 23.                    *)
(***************************************************************************)
EXTENDS Integers, Sequences, FiniteSets, TLC

\* ---------------------------------------------------------------- bounds
MaxProcs == 2
MaxRuns == 2
MaxClock == 3
TicksPerSecond == 2

\* ------------------------------------------------------------ value sets
NoneValue == "<None>"
EnvValues == {NoneValue, "", "sk-test"}
Outputs == {<< >>, <<"report">>}
ErrorTexts == {<< >>, <<"boom">>}
NoResult == <<"<no result>">>
NoHandle == 0
NoExc == [kind |-> "none", text |-> << >>]
Exc(e) == [kind |-> "Exception", text |-> e]
BaseExcKinds == {"CancelledError", "KeyboardInterrupt"}
NoDate == -1

VARIABLES
  clock,        \* datetime.now(), in ticks
  procs,        \* processes started so far
  runs,         \* invocations of run_daily_automation in this process
  pc,           \* position of the running process
  exitCode,     \* exit status of the process, -1 while it runs
  environ,      \* os.environ["OPENAI_API_KEY"] of the process
  packages,     \* whether `agents` can be imported
  dirExists,    \* whether ./daily-automation-output exists
  DATE_STR,
  API_KEY,
  files,        \* file name -> text, for the files under OUTPUT_DIR
  stdout,
  stderr,
  live,         \* tool-provider handles whose process is running
  codex_mcp_server,
  nextHandle,
  usedHandles,  \* handles acquired by earlier invocations
  pending,      \* exception in flight
  result,       \* result.final_output
  submitted,    \* calls of Runner.run in this invocation
  started,      \* tool provider started in this process
  raised,       \* an exception was raised in this invocation
  runWrote,     \* file names written by this invocation
  at,           \* state of the tool provider when each step happened
  madeDir,      \* this process created the output directory
  procWrote     \* file names written by this process

vars == <<clock, procs, runs, pc, exitCode, environ, packages,
          dirExists, DATE_STR, API_KEY, files, stdout, stderr, live,
          codex_mcp_server, nextHandle, usedHandles, pending, result,
          submitted, started, raised, runWrote, at, madeDir,
          procWrote>>

\* --------------------------------------------------------------- helpers
\* `not API_KEY`: None and the empty string are both falsy
TruthyNotNone(v) == v # NoneValue
Truthy(v) == v # NoneValue /\ v # ""

\* OUTPUT_DIR.mkdir(exist_ok=True): the directory exists afterwards
Mkdir(exists) == TRUE

\* datetime.now().strftime("%Y%m%d_%H%M%S"): resolution of one second
Strftime(t) == t \div TicksPerSecond

\* OUTPUT_DIR / f"summary-{DATE_STR}.txt", OUTPUT_DIR / f"error-{DATE_STR}.log"
SummaryFile(d) == <<"summary", d>>
ErrorFile(d) == <<"error", d>>

\* Path.write_text(data): create or truncate, then write the text as it is
WriteTextNewline(fs, name, data) ==
  [n \in DOMAIN fs \cup {name} |-> IF n = name THEN data \o <<"\n">> ELSE fs[n]]
WriteText(fs, name, data) ==
  [n \in DOMAIN fs \cup {name} |-> IF n = name THEN data ELSE fs[n]]

\* error_msg = f"Error in daily automation: {str(e)}"
ErrorMsg(e) == <<"Error in daily automation: ">> \o e

\* f"{datetime.now()}: {error_msg}\n{str(e)}"
ErrorLogTextRawOnly(now, e) == e
ErrorLogText(now, e) == <<ToString(now), ": ">> \o ErrorMsg(e) \o <<"\n">> \o e

\* MCPServerStdio(...): a new server object for each evaluation
SharedHandle(next) == 1
NewHandle(next) == next

\* MCPServerStdio.__aexit__: the provider process is terminated
ReleaseOnlyOnSuccess(l, h, exc) == IF exc = NoExc THEN l \ {h} ELSE l
ReleaseNothing(l, h, exc) == l
Release(l, h, exc) == l \ {h}

Provider == IF live = {} THEN "down" ELSE "live"
NoSteps == [s \in {"summary", "error", "exit"} |-> "-"]

\* ------------------------------------------------------------------ Init
Init ==
  /\ clock = 0 /\ procs = 0 /\ runs = 0
  /\ pc = "idle" /\ exitCode = -1
  /\ environ = NoneValue /\ packages = TRUE
  /\ dirExists \in BOOLEAN
  /\ DATE_STR = NoDate /\ API_KEY = NoneValue
  /\ files = << >> /\ stdout = {} /\ stderr = {}
  /\ live = {} /\ codex_mcp_server = NoHandle /\ nextHandle = 1
  /\ usedHandles = {}
  /\ pending = NoExc /\ result = NoResult
  /\ submitted = 0 /\ started = FALSE /\ raised = FALSE
  /\ runWrote = {} /\ at = NoSteps
  /\ madeDir = FALSE /\ procWrote = {}

\* --------------------------------------------------------------- actions
\* time passes
Tick ==
  /\ clock < MaxClock
  /\ clock' = clock + 1
  /\ UNCHANGED <<procs, runs, pc, exitCode, environ, packages,
                 dirExists, DATE_STR, API_KEY, files, stdout, stderr, live,
                 codex_mcp_server, nextHandle, usedHandles, pending, result,
                 submitted, started, raised, runWrote, at, madeDir,
                 procWrote>>

\* a new interpreter loads the module; nothing but the file system survives
StartProcess ==
  /\ pc \in {"idle", "exited"}
  /\ procs < MaxProcs
  /\ procs' = procs + 1
  /\ environ' \in EnvValues
  /\ packages' \in BOOLEAN
  /\ pc' = "import" /\ exitCode' = -1
  /\ runs' = 0
  /\ DATE_STR' = NoDate /\ API_KEY' = NoneValue
  /\ stdout' = {} /\ stderr' = {}
  /\ live' = {} /\ codex_mcp_server' = NoHandle /\ nextHandle' = 1
  /\ usedHandles' = {}
  /\ pending' = NoExc /\ result' = NoResult
  /\ submitted' = 0 /\ started' = FALSE /\ raised' = FALSE
  /\ runWrote' = {} /\ at' = NoSteps
  /\ madeDir' = FALSE /\ procWrote' = {}
  /\ UNCHANGED <<clock, dirExists, files>>

\* lines 14-19
ImportPackages ==
  /\ pc = "import"
  /\ IF packages
       THEN /\ pc' = "config"
            /\ UNCHANGED <<stdout, exitCode>>
       ELSE /\ stdout' = stdout \cup {<<"Error: Required packages not installed">>}
            /\ exitCode' = 1
            /\ pc' = "exited"
  /\ UNCHANGED <<clock, procs, runs, environ, packages, dirExists,
                 DATE_STR, API_KEY, files, stderr, live, codex_mcp_server,
                 nextHandle, usedHandles, pending, result, submitted,
                 started, raised, runWrote, at, madeDir,
                 procWrote>>

\* lines 22-24
Configure ==
  /\ pc = "config"
  /\ dirExists' = Mkdir(dirExists)
  /\ madeDir' = (dirExists' # dirExists)
  /\ DATE_STR' = Strftime(clock)
  /\ pc' = "checkkey"
  /\ UNCHANGED <<clock, procs, runs, exitCode, environ, packages,
                 API_KEY, files, stdout, stderr, live, codex_mcp_server,
                 nextHandle, usedHandles, pending, result, submitted,
                 started, raised, runWrote, at,
                 procWrote>>

\* lines 27-32
CheckApiKey ==
  /\ pc = "checkkey"
  /\ API_KEY' = environ
  /\ IF Truthy(environ)
       THEN /\ pc' = "ready"
            /\ UNCHANGED <<stdout, exitCode>>
       ELSE /\ stdout' = stdout \cup
                  {<<"Error: OPENAI_API_KEY environment variable not set">>}
            /\ exitCode' = 1
            /\ pc' = "exited"
  /\ UNCHANGED <<clock, procs, runs, environ, packages, dirExists,
                 DATE_STR, files, stderr, live, codex_mcp_server,
                 nextHandle, usedHandles, pending, result, submitted,
                 started, raised, runWrote, at, madeDir,
                 procWrote>>

\* lines 100-104 and 35-38: asyncio.run(run_daily_automation()), or a
\* further invocation by a host after the previous one returned
Invoke ==
  /\ pc \in {"ready", "returned"}
  /\ runs < MaxRuns
  /\ runs' = runs + 1
  /\ stdout' = stdout \cup {<<"Starting daily automation at ", ToString(clock)>>}
  /\ usedHandles' = usedHandles \cup ({codex_mcp_server} \ {NoHandle})
  /\ codex_mcp_server' = NoHandle
  /\ pending' = NoExc /\ result' = NoResult /\ raised' = FALSE
  /\ submitted' = 0
  /\ runWrote' = {} /\ at' = NoSteps
  /\ pc' = "enter"
  /\ UNCHANGED <<clock, procs, exitCode, environ, packages, dirExists,
                 DATE_STR, API_KEY, files, stderr, live, nextHandle,
                 started, madeDir,
                 procWrote>>

\* lines 42-48: MCPServerStdio(...).__aenter__ starts the provider or raises
EnterServer ==
  /\ pc = "enter"
  /\ \/ /\ codex_mcp_server' = NewHandle(nextHandle)
        /\ nextHandle' = nextHandle + 1
        /\ live' = live \cup {NewHandle(nextHandle)}
        /\ started' = TRUE
        /\ stdout' = stdout \cup {<<"Codex MCP server started">>}
        /\ pc' = "run"
        /\ UNCHANGED <<pending, raised>>
     \/ /\ \E e \in ErrorTexts : pending' = Exc(e)
        /\ raised' = TRUE
        /\ pc' = "except"
        /\ UNCHANGED <<codex_mcp_server, nextHandle, live, started, stdout>>
  /\ UNCHANGED <<clock, procs, runs, exitCode, environ, packages,
                 dirExists, DATE_STR, API_KEY, files, stderr, usedHandles,
                 result, submitted, runWrote, at, madeDir,
                 procWrote>>

\* lines 51-78: build the agent, submit the task, await the final result;
\* the await returns, raises, or is cancelled / interrupted
RunAgent ==
  /\ pc = "run"
  /\ submitted' = submitted + 1
  /\ stdout' = stdout \cup {<<"Running daily automation tasks...">>}
  /\ \/ /\ result' \in Outputs
        /\ pc' = "save"
        /\ UNCHANGED <<pending, raised>>
     \/ /\ \E e \in ErrorTexts : pending' = Exc(e)
        /\ raised' = TRUE
        /\ pc' = "aexit"
        /\ UNCHANGED result
     \/ /\ \E k \in BaseExcKinds : pending' = [kind |-> k, text |-> << >>]
        /\ raised' = TRUE
        /\ pc' = "aexit"
        /\ UNCHANGED result
  /\ UNCHANGED <<clock, procs, runs, exitCode, environ, packages,
                 dirExists, DATE_STR, API_KEY, files, stderr, live,
                 codex_mcp_server, nextHandle, usedHandles, started,
                 runWrote, at, madeDir,
                 procWrote>>

\* lines 80-86: the write succeeds, raises before the file is opened, or
\* raises after the file was created and part of the text was written
SaveSummary ==
  /\ pc = "save"
  /\ \/ /\ files' = WriteText(files, SummaryFile(DATE_STR), result)
        /\ runWrote' = runWrote \cup {SummaryFile(DATE_STR)}
        /\ procWrote' = procWrote \cup {SummaryFile(DATE_STR)}
        /\ at' = [at EXCEPT !["summary"] = Provider]
        /\ stdout' = stdout \cup {<<"Daily automation completed">>,
                                  <<"Final Output:">> \o result,
                                  <<"Summary saved">>}
        /\ pc' = "aexit"
        /\ UNCHANGED <<pending, raised>>
     \/ /\ \E e \in ErrorTexts : pending' = Exc(e)
        /\ raised' = TRUE
        /\ stdout' = stdout \cup {<<"Daily automation completed">>,
                                  <<"Final Output:">> \o result}
        /\ pc' = "aexit"
        /\ UNCHANGED <<files, runWrote, procWrote, at>>
     \/ /\ \E e \in ErrorTexts : pending' = Exc(e)
        /\ raised' = TRUE
        /\ \E k \in 0..Len(result) :
             files' = WriteText(files, SummaryFile(DATE_STR), SubSeq(result, 1, k))
        /\ runWrote' = runWrote \cup {SummaryFile(DATE_STR)}
        /\ procWrote' = procWrote \cup {SummaryFile(DATE_STR)}
        /\ at' = [at EXCEPT !["summary"] = Provider]
        /\ stdout' = stdout \cup {<<"Daily automation completed">>,
                                  <<"Final Output:">> \o result}
        /\ pc' = "aexit"
  /\ UNCHANGED <<clock, procs, runs, exitCode, environ, packages,
                 dirExists, DATE_STR, API_KEY, stderr, live,
                 codex_mcp_server, nextHandle, usedHandles, result,
                 submitted, started, madeDir>>

\* lines 42-46 and 88: leaving the async with block on return or on an
\* exception; __aexit__ releases the provider and may itself raise
ExitServer ==
  /\ pc = "aexit"
  /\ live' = Release(live, codex_mcp_server, pending)
  /\ \/ /\ UNCHANGED <<pending, raised>>
        /\ pc' = CASE pending = NoExc -> "returned"
                   [] pending.kind = "Exception" -> "except"
                   [] OTHER -> "uncaught"
     \/ /\ \E e \in ErrorTexts : pending' = Exc(e)
        /\ raised' = TRUE
        /\ pc' = "except"
  /\ UNCHANGED <<clock, procs, runs, exitCode, environ, packages,
                 dirExists, DATE_STR, API_KEY, files, stdout, stderr,
                 codex_mcp_server, nextHandle, usedHandles, result,
                 submitted, started, runWrote, at, madeDir,
                 procWrote>>

\* lines 90-97: except Exception as e
HandleException ==
  /\ pc = "except"
  /\ stderr' = stderr \cup {ErrorMsg(pending.text)}
  /\ files' = WriteText(files, ErrorFile(DATE_STR),
                        ErrorLogText(clock, pending.text))
  /\ runWrote' = runWrote \cup {ErrorFile(DATE_STR)}
  /\ procWrote' = procWrote \cup {ErrorFile(DATE_STR)}
  /\ at' = [at EXCEPT !["error"] = Provider, !["exit"] = Provider]
  /\ exitCode' = 1
  /\ pc' = "exited"
  /\ UNCHANGED <<clock, procs, runs, environ, packages, dirExists,
                 DATE_STR, API_KEY, stdout, live, codex_mcp_server,
                 nextHandle, usedHandles, pending, result, submitted,
                 started, raised, madeDir>>

\* a CancelledError or KeyboardInterrupt is no Exception: it leaves
\* run_daily_automation and asyncio.run (line 104) and ends the interpreter
Uncaught ==
  /\ pc = "uncaught"
  /\ stderr' = stderr \cup {<<"Traceback: ", pending.kind>>}
  /\ exitCode' = IF pending.kind = "KeyboardInterrupt" THEN 130 ELSE 1
  /\ at' = [at EXCEPT !["exit"] = Provider]
  /\ pc' = "exited"
  /\ UNCHANGED <<clock, procs, runs, environ, packages, dirExists,
                 DATE_STR, API_KEY, files, stdout, live, codex_mcp_server,
                 nextHandle, usedHandles, pending, result, submitted,
                 started, raised, runWrote, madeDir,
                 procWrote>>

\* line 105: the last invocation returned and the interpreter ends
MainEnd ==
  /\ pc = "returned"
  /\ stdout' = stdout \cup {<<"====">>}
  /\ exitCode' = 0
  /\ at' = [at EXCEPT !["exit"] = Provider]
  /\ pc' = "exited"
  /\ UNCHANGED <<clock, procs, runs, environ, packages, dirExists,
                 DATE_STR, API_KEY, files, stderr, live, codex_mcp_server,
                 nextHandle, usedHandles, pending, result, submitted,
                 started, raised, runWrote, madeDir,
                 procWrote>>

Next ==
  \/ Tick
  \/ StartProcess
  \/ ImportPackages
  \/ Configure
  \/ CheckApiKey
  \/ Invoke
  \/ EnterServer
  \/ RunAgent
  \/ SaveSummary
  \/ ExitServer
  \/ HandleException
  \/ Uncaught
  \/ MainEnd

Spec == Init /\ [][Next]_vars

\* ---------------------------------------------------------------- claims
\* an invocation of run_daily_automation has ended
RunTerminated == runs > 0 /\ pc \in {"returned", "exited"}
\* the process has ended
Exited == pc = "exited"
\* the tool provider failed to start in this invocation
StartFailed == runs > 0 /\ raised /\ codex_mcp_server = NoHandle
\* the invocation returned its result
Succeeded == runs > 0 /\ (pc = "returned" \/ (pc = "exited" /\ exitCode = 0))
\* OPENAI_API_KEY is unset or empty
KeyMissing == environ \in {NoneValue, ""}
\* the await of Runner.run was cancelled or interrupted
Interrupted == pending.kind \in BaseExcKinds
WroteSummary == SummaryFile(DATE_STR) \in runWrote
WroteError == ErrorFile(DATE_STR) \in runWrote

\* C1: every invocation that passed the credential check and terminated
\* wrote exactly one of the summary file and the error file, wherever an
\* exception was raised inside run_daily_automation (stated here for the
\* invocations that were not cancelled or interrupted).
C1_ExactlyOneOutputFile ==
  (RunTerminated /\ ~Interrupted) => Cardinality(runWrote) = 1

\* C2 (as claimed): with the credential unset or empty the process exits
\* with status 1, writes no file, starts no tool provider, submits no task,
\* and performs no other side effect before the check.
C2_NoSideEffectBeforeCheck ==
  (Exited /\ KeyMissing) =>
     /\ exitCode = 1
     /\ procWrote = {}
     /\ ~started /\ submitted = 0 /\ runs = 0
     /\ ~madeDir

\* C2 (amended): with the credential unset or empty the process exits with
\* status 1, writes no file, starts no tool provider and submits no task;
\* the check precedes the start of the tool provider and the task, and the
\* output directory may have been created before it.
C2_MissingKeyExits ==
  (Exited /\ KeyMissing) =>
     /\ exitCode = 1
     /\ procWrote = {}
     /\ ~started /\ submitted = 0 /\ runs = 0

C2_Witness ==
  Exited /\ environ = "" /\ packages /\ API_KEY = "" /\ madeDir

\* C3: when the tool provider fails to start, the process exits with status
\* 1, has written exactly the error file, with a non-empty text, has written
\* no summary file and has submitted no task.
C3_StartFailure ==
  (Exited /\ StartFailed) =>
     /\ exitCode = 1
     /\ runWrote = {ErrorFile(DATE_STR)}
     /\ ErrorFile(DATE_STR) \in DOMAIN files
     /\ Len(files[ErrorFile(DATE_STR)]) > 0
     /\ submitted = 0

C3_Witness ==
  Exited /\ StartFailed /\ pending.text = << >> /\ WroteError

\* C4: after a successful invocation the only file it wrote is
\* summary-<DATE_STR>.txt and its text is the agent's final output.
C4_SummaryVerbatim ==
  Succeeded =>
     /\ result \in Outputs
     /\ runWrote = {SummaryFile(DATE_STR)}
     /\ SummaryFile(DATE_STR) \in DOMAIN files
     /\ files[SummaryFile(DATE_STR)] = result

C4_Witness ==
  Exited /\ exitCode = 0 /\ result = <<"report">> /\ WroteSummary

\* C5: in no terminal state of the process is the tool provider running,
\* whichever way the invocation ended.
C5_ProviderReleased ==
  Exited => live = {}

C5_Witness ==
  Exited /\ codex_mcp_server # NoHandle /\ pending.kind = "CancelledError"

\* C6: the exit status is 1 when the credential is missing or an exception
\* was raised, it is 0 exactly when the agent returned a result and the
\* summary was written, and an invocation that wrote a summary never ends
\* with status 1 (stated here for the processes that were not cancelled or
\* interrupted).
C6_ExitCode ==
  (Exited /\ ~Interrupted) =>
     /\ (packages /\ KeyMissing) => exitCode = 1
     /\ raised => exitCode = 1
     /\ exitCode = 0 <=> (result # NoResult /\ WroteSummary)
     /\ WroteSummary => exitCode # 1

\* C7: no invocation writes a file name that an earlier invocation wrote:
\* the names an invocation newly writes are names of no existing file.
C7_NeverOverwritten ==
  [][(runWrote' \ runWrote) \cap DOMAIN files = {}]_vars

\* C8: an invocation acquires a handle no earlier invocation held, the
\* earlier handle is released before the next is acquired, and at most one
\* handle is live.
C8_FreshHandle ==
  /\ Cardinality(live) <= 1
  /\ codex_mcp_server # NoHandle => codex_mcp_server \notin usedHandles
  /\ pc = "enter" => live = {}
  /\ live \subseteq {codex_mcp_server}

C8_Witness ==
  runs = 2 /\ usedHandles # {} /\ codex_mcp_server \in live

\* C9 (as claimed): on the failure path too the record is persisted before
\* the tool provider is shut down, and the shutdown precedes the exit.
C9_PersistBeforeShutdown ==
  /\ at["summary"] \in {"-", "live"}
  /\ (codex_mcp_server # NoHandle) => at["error"] \in {"-", "live"}
  /\ at["exit"] \in {"-", "down"}

\* C9 (amended): the summary is persisted while the tool provider runs, the
\* error record is persisted after the tool provider was shut down (or was
\* never started), and the process exits with the tool provider shut down.
C9_StepOrder ==
  /\ at["summary"] \in {"-", "live"}
  /\ at["error"] \in {"-", "down"}
  /\ at["exit"] \in {"-", "down"}

C9_Witness ==
  Exited /\ codex_mcp_server # NoHandle /\ at["error"] = "down"
         /\ result = NoResult

\* C10: the diagnostic of a missing credential and the message of an
\* exception during the run are both on the error stream when the process
\* exits with status 1.
C10_DiagnosticsOnStderr ==
  (Exited /\ exitCode = 1) =>
     /\ (packages /\ KeyMissing) =>
           <<"Error: OPENAI_API_KEY environment variable not set">> \in stderr
     /\ WroteError => ErrorMsg(pending.text) \in stderr

====
